---- MODULE Spec2Model ----
(***************************************************************************)
(* Model of the passport proof verifier (package zkverifier_kit):          *)
(* the option model, the public-signal validator (validateBase,            *)
(* validateIdentitiesInputs), the facade (VerifyProof) with its two        *)
(* collaborators (root verifier, Groth16 pairing check) and the            *)
(* correlation check (VerifyExternalID / SetExternalID).                   *)
(*                                                                         *)
(* Strings of the program are sequences of character codes: 0..9 are the   *)
(* decimal digits, any larger code is a non-digit character.  Byte strings *)
(* (country codes, addresses) are sequences of byte values.  Time is an    *)
(* integer number of years.  A nil error is the string "nil".              *)
(***************************************************************************)
EXTENDS Integers, Sequences, FiniteSets, TLC

VARIABLES opts, verificationKey, now, calls, extCheck, rawID

vars == <<opts, verificationKey, now, calls, extCheck, rawID>>

\* ------------------------------------------------------------------ bounds
\* the clock's value at construction and the number of clock steps explored
Now0 == 100
MaxTicks == 1

\* ------------------------------------------------------------ signal layout
Nullifier == 0
Citizenship == 6
EventID == 9
EventData == 10
IdStateRoot == 11
Selector == 12
TimestampUpperBound == 14
IdentityCounterUpperBound == 16
BirthdateUpperBound == 18
ExpirationDateLowerBound == 19
SignalsLength == 21

\* another selector constant
proofSelectorValue_Other == <<4, 0>>

proofSelectorValue == <<3, 9>>

Nil == "nil"
ErrContractCall == "ErrContractCall"

\* signals[i] of the Go slice (0-based)
Sig(signals, i) == signals[i + 1]

\* ------------------------------------------------------- decimal strings
IsDigits(s) == s # <<>> /\ \A i \in 1..Len(s) : s[i] \in 0..9

RECURSIVE StripZeros(_)
StripZeros(s) ==
    IF s # <<>> /\ Head(s) = 0 THEN StripZeros(Tail(s)) ELSE s

RECURSIVE LexLE(_, _)
LexLE(a, b) ==
    IF a = <<>> THEN TRUE
    ELSE IF Head(a) # Head(b) THEN Head(a) < Head(b)
    ELSE LexLE(Tail(a), Tail(b))

\* a <= b for two digit strings without leading zeros (zero is <<>>)
DecLE(a, b) ==
    IF Len(a) # Len(b) THEN Len(a) < Len(b) ELSE LexLE(a, b)

RECURSIVE DecNat(_)
DecNat(n) == IF n = 0 THEN <<>> ELSE Append(DecNat(n \div 10), n % 10)

\* the decimal string of a natural number ("0" for zero)
Dec(n) == IF n = 0 THEN <<0>> ELSE DecNat(n)

RECURSIVE ToInt(_)
ToInt(s) == IF s = <<>> THEN 0 ELSE 10 * ToInt(SubSeq(s, 1, Len(s) - 1)) + s[Len(s)]

MaxInt64 == <<9,2,2,3,3,7,2,0,3,6,8,5,4,7,7,5,8,0,7>>

\* strconv.ParseInt(s, 10, 64) on an unsigned decimal string; the value is kept
\* as a digit string without leading zeros so that its width is that of int64
ParseInt(s) ==
    IF ~IsDigits(s) THEN [err |-> "invalid syntax", v |-> <<>>]
    ELSE IF ~DecLE(StripZeros(s), MaxInt64) THEN [err |-> "value out of range", v |-> MaxInt64]
    ELSE [err |-> Nil, v |-> StripZeros(s)]

\* ------------------------------------------------------ packed integers
RECURSIVE BytesOf(_)
BytesOf(n) == IF n = 0 THEN <<>> ELSE Append(BytesOf(n \div 256), n % 256)

RECURSIVE IntOfBytes(_)
IntOfBytes(b) ==
    IF b = <<>> THEN 0 ELSE 256 * IntOfBytes(SubSeq(b, 1, Len(b) - 1)) + b[Len(b)]

\* decimal signal -> big-endian bytes of the integer
decodeInt(s) == IF IsDigits(s) /\ Len(s) <= 9 THEN BytesOf(ToInt(s)) ELSE <<>>

\* bytes -> decimal string of the big-endian integer
encodeInt(b) == Dec(IntOfBytes(b))

\* ------------------------------------------------------------- digests
\* identifiers and digests: id is the raw text, h the number of times it was hashed
Str(id) == [h |-> 0, id |-> id]
EmptyStr == Str("")
Sha256Hex(s) == [h |-> s.h + 1, id |-> s.id]

\* ------------------------------------------------------ validation rules
FirstErr(e1, e2) == IF e1 # Nil THEN e1 ELSE e2

Required(isEmpty) == IF isEmpty THEN "cannot be blank" ELSE Nil

In(v, allowed) == IF v \in allowed THEN Nil ELSE "must be a valid value"

Max(v, limit) ==
    IF limit >= 0 /\ DecLE(v, StripZeros(Dec(limit))) THEN Nil
    ELSE "must be no greater than"

ParseDate(s) ==
    IF IsDigits(s) /\ Len(s) <= 9 THEN [ok |-> TRUE, t |-> ToInt(s)]
    ELSE [ok |-> FALSE, t |-> 0]

afterDate(s, t) ==
    IF ~ParseDate(s).ok THEN "invalid date"
    ELSE IF ParseDate(s).t > t THEN Nil ELSE "date is too early"

beforeDate(s, t) ==
    IF ~ParseDate(s).ok THEN "invalid date"
    ELSE IF ParseDate(s).t <= t THEN Nil ELSE "date is too late"

validateOnOptSet(value, optIsEmpty, ruleErr) ==
    IF optIsEmpty THEN Nil ELSE FirstErr(Required(value = <<>>), ruleErr)

\* a Filter that stops at the first failing entry
Filter_FirstOnly(errs) ==
    LET failing == {q \in DOMAIN errs : errs[q] # Nil}
    IN  [p \in (IF failing = {} THEN {} ELSE {CHOOSE q \in failing : TRUE}) |-> errs[p]]

\* val.Errors.Filter: the entries whose error is not nil
Filter(errs) == [p \in {q \in DOMAIN errs : errs[q] # Nil} |-> errs[p]]

NoReport == [p \in {} |-> Nil]

\* an error value returned to the caller
ErrNil == [kind |-> "nil", report |-> NoReport]
ErrValidation(report) ==
    IF DOMAIN report = {} THEN ErrNil ELSE [kind |-> "validation", report |-> report]
ErrInfra == [kind |-> ErrContractCall, report |-> NoReport]
ErrGroth16 == [kind |-> "groth16", report |-> NoReport]
Pending == [kind |-> "pending", report |-> NoReport]

\* --------------------------------------------------------- option model
Unbounded == -1

EmptyOptions ==
    [externalID |-> EmptyStr, age |-> 0, citizenships |-> {}, address |-> <<>>,
     eventID |-> <<>>, maxIdentitiesCount |-> Unbounded,
     maxIdentityCreationTimestamp |-> 0]

WithExternalID(identifier) == [kind |-> "WithExternalID", arg |-> identifier]
WithAgeAbove(age) == [kind |-> "WithAgeAbove", arg |-> age]
WithCitizenships(cs) == [kind |-> "WithCitizenships", arg |-> cs]
WithAddress(address) == [kind |-> "WithAddress", arg |-> address]
WithEventID(identifier) == [kind |-> "WithEventID", arg |-> identifier]
WithIdentitiesCounter(n) == [kind |-> "WithIdentitiesCounter", arg |-> n]
WithIdentitiesCreationTimestampLimit(t) ==
    [kind |-> "WithIdentitiesCreationTimestampLimit", arg |-> t]

\* opt(&opts)
ApplyOption(o, opt) ==
    CASE opt.kind = "WithExternalID" -> [o EXCEPT !.externalID = Sha256Hex(opt.arg)]
      [] opt.kind = "WithAgeAbove" -> [o EXCEPT !.age = opt.arg]
      [] opt.kind = "WithCitizenships" -> [o EXCEPT !.citizenships = opt.arg]
      [] opt.kind = "WithAddress" -> [o EXCEPT !.address = opt.arg]
      [] opt.kind = "WithEventID" -> [o EXCEPT !.eventID = opt.arg]
      [] opt.kind = "WithIdentitiesCounter" -> [o EXCEPT !.maxIdentitiesCount = opt.arg]
      [] opt.kind = "WithIdentitiesCreationTimestampLimit" ->
             [o EXCEPT !.maxIdentityCreationTimestamp = opt.arg]

\* a merge that starts from the empty configuration whatever the base is
RECURSIVE mergeOptions_NoBase(_, _)
mergeOptions_NoBase(base, options) ==
    IF options = <<>> THEN EmptyOptions
    ELSE ApplyOption(mergeOptions_NoBase(base, SubSeq(options, 1, Len(options) - 1)),
                     options[Len(options)])

\* opts := base; for each opt in order: opt(&opts)
RECURSIVE mergeOptions(_, _)
mergeOptions(base, options) ==
    IF options = <<>> THEN base
    ELSE mergeOptions(ApplyOption(base, Head(options)), Tail(options))

\* ----------------------------------------------------------- validator
ShapePaths == {"zk_proof/proof", "zk_proof/pub_signals"}

\* validateShape with the length rule off by one: Length(20, 21)
validateShape_OffByOne(proof) ==
    [p \in ShapePaths |->
        IF p = "zk_proof/proof" THEN Required(~proof.Proof)
        ELSE FirstErr(Required(proof.PubSignals = <<>>),
                      IF Len(proof.PubSignals) \in {SignalsLength - 1, SignalsLength} THEN Nil
                      ELSE "the length must be exactly 21")]

\* the first val.Errors of validateBase: proof and signal vector present, length 21
validateShape(proof) ==
    [p \in ShapePaths |->
        IF p = "zk_proof/proof" THEN Required(~proof.Proof)
        ELSE FirstErr(Required(proof.PubSignals = <<>>),
                      IF Len(proof.PubSignals) = SignalsLength THEN Nil
                      ELSE "the length must be exactly 21")]

\* the root verifier's error is never told apart: it goes into the report
IsContractCall_Never(err) == FALSE

\* errors.Is(err, identity.ErrContractCall)
IsContractCall(err) == err = ErrContractCall

\* the OR pair of identity-counter bound and identity-creation-timestamp bound
validateIdentitiesInputs(signals, o) ==
    LET counter == ParseInt(Sig(signals, IdentityCounterUpperBound))
        cErr == IF o.maxIdentitiesCount # -1
                THEN FirstErr(Required(counter.v = <<>>), Max(counter.v, o.maxIdentitiesCount))
                ELSE Nil
        tErr == validateOnOptSet(Sig(signals, TimestampUpperBound),
                                 o.maxIdentityCreationTimestamp = 0,
                                 beforeDate(Sig(signals, TimestampUpperBound),
                                            o.maxIdentityCreationTimestamp))
    IN  IF counter.err # Nil
        THEN [p \in {"pub_signals/identity_counter_upper_bound"} |-> counter.err]
        ELSE IF cErr # Nil
        THEN [p \in {"pub_signals/timestamp_upper_bound"} |-> tErr]
        ELSE IF tErr # Nil
        THEN [p \in {"pub_signals/identity_counter_upper_bound"} |-> cErr]
        ELSE NoReport

BasePaths ==
    {"pub_signals/nullifier", "pub_signals/selector",
     "pub_signals/expiration_date_lower_bound", "pub_signals/id_state_hash",
     "pub_signals/event_id", "pub_signals/birth_date_upper_bound",
     "pub_signals/citizenship", "pub_signals/event_data"}

\* the latest birth date resolved once, when the verifier was built
AllowedBirthDate_AtConstruction(t, age) == Now0 - age

\* time.Now().UTC().AddDate(-v.opts.age, 0, 0), t being the time of validation
AllowedBirthDate(t, age) == t - age

\* the val.Errors literal `all` of validateBase, evaluated at time t
validateBaseFields(signals, o, rootErr, t) ==
    LET allowedBirthDate == AllowedBirthDate(t, o.age)
    IN  [p \in BasePaths |->
          CASE p = "pub_signals/nullifier" ->
                 Required(Sig(signals, Nullifier) = <<>>)
            [] p = "pub_signals/selector" ->
                 FirstErr(Required(Sig(signals, Selector) = <<>>),
                          In(Sig(signals, Selector), {proofSelectorValue}))
            [] p = "pub_signals/expiration_date_lower_bound" ->
                 FirstErr(Required(Sig(signals, ExpirationDateLowerBound) = <<>>),
                          afterDate(Sig(signals, ExpirationDateLowerBound), t))
            [] p = "pub_signals/id_state_hash" -> rootErr
            [] p = "pub_signals/event_id" ->
                 validateOnOptSet(Sig(signals, EventID), o.eventID = <<>>,
                                  In(Sig(signals, EventID), {o.eventID}))
            [] p = "pub_signals/birth_date_upper_bound" ->
                 validateOnOptSet(Sig(signals, BirthdateUpperBound), o.age = 0,
                                  beforeDate(Sig(signals, BirthdateUpperBound), allowedBirthDate))
            [] p = "pub_signals/citizenship" ->
                 validateOnOptSet(decodeInt(Sig(signals, Citizenship)), o.citizenships = {},
                                  In(decodeInt(Sig(signals, Citizenship)), o.citizenships))
            [] p = "pub_signals/event_data" ->
                 validateOnOptSet(Sig(signals, EventData), o.address = <<>>,
                                  In(Sig(signals, EventData), {encodeInt(o.address)}))]

\* all[field] = e for the entries of validateIdentitiesInputs
MergeErrors(all, ids) ==
    [p \in DOMAIN all \cup DOMAIN ids |-> IF p \in DOMAIN ids THEN ids[p] ELSE all[p]]

\* validateBase from the root verifier's answer on: what it returns
validateAfterRoot(signals, o, rootErr, t) ==
    IF IsContractCall(rootErr) THEN ErrInfra
    ELSE ErrValidation(Filter(MergeErrors(validateBaseFields(signals, o, rootErr, t),
                                          validateIdentitiesInputs(signals, o))))

\* the whole of validateBase, given the root verifier's answer and the time
validateBase(proof, o, rootErr, t) ==
    IF ErrValidation(Filter(validateShape(proof))) # ErrNil
    THEN ErrValidation(Filter(validateShape(proof)))
    ELSE validateAfterRoot(proof.PubSignals, o, rootErr, t)

\* a VerifyExternalID that hashes the candidate before comparing
VerifyExternalIDErr_Hashing(stored, candidate) ==
    ErrValidation(Filter([p \in {"external_id"} |->
        FirstErr(Required(stored = EmptyStr), In(stored, {Sha256Hex(candidate)}))]))

\* VerifyExternalID's val.Errors{"external_id": ...}.Filter()
VerifyExternalIDErr(stored, candidate) ==
    ErrValidation(Filter([p \in {"external_id"} |->
        FirstErr(Required(stored = EmptyStr), In(stored, {candidate}))]))

\* -------------------------------------------------------------- facade
CallIds == {1, 2}

IdleCall ==
    [pc |-> "idle", options |-> <<>>, opts |-> EmptyOptions,
     proof |-> [Proof |-> FALSE, PubSignals |-> <<>>],
     rootCalls |-> 0, grothCalls |-> 0, rootErr |-> Nil, at |-> 0,
     verr |-> Pending, result |-> Pending]

\* VerifyProof ignoring validateBase's error
VerifyProofNext_Ignore(err) == "groth"

\* VerifyProof once validateBase has returned err: stop, or go on to VerifyGroth16
VerifyProofNext(err) == IF err # ErrNil THEN "done" ELSE "groth"

Returned(call, err) ==
    IF VerifyProofNext(err) = "done"
    THEN [call EXCEPT !.pc = "done", !.verr = err, !.result = err]
    ELSE [call EXCEPT !.pc = "groth", !.verr = err]

\* VerifyProof up to the call of the root verifier
VerifyProofCall(c, proof, options) ==
    /\ calls[c].pc = "idle"
    /\ LET started == [IdleCall EXCEPT !.options = options,
                                           !.opts = mergeOptions(opts, options), !.proof = proof]
           shape == ErrValidation(Filter(validateShape(proof)))
       IN  calls' = [calls EXCEPT ![c] =
                        IF shape # ErrNil THEN Returned(started, shape)
                        ELSE [started EXCEPT !.pc = "root"]]
    /\ UNCHANGED <<opts, verificationKey, now, extCheck, rawID>>

\* the root verifier answers; validateBase runs to its end
VerifyRootReturn(c, outcome) ==
    /\ calls[c].pc = "root"
    /\ LET call == [calls[c] EXCEPT !.rootCalls = @ + 1, !.rootErr = outcome, !.at = now]
       IN  calls' = [calls EXCEPT ![c] =
              Returned(call, validateAfterRoot(call.proof.PubSignals, call.opts, outcome, now))]
    /\ UNCHANGED <<opts, verificationKey, now, extCheck, rawID>>

\* the pairing check answers; VerifyProof returns
VerifyGroth16Return(c, ok) ==
    /\ calls[c].pc = "groth"
    /\ calls' = [calls EXCEPT ![c] =
                    [@ EXCEPT !.pc = "done", !.grothCalls = @ + 1,
                              !.result = IF ok THEN ErrNil ELSE ErrGroth16]]
    /\ UNCHANGED <<opts, verificationKey, now, extCheck, rawID>>

\* the caller takes the result; v2 and the proof are dropped
Return(c) ==
    /\ calls[c].pc = "done"
    /\ calls' = [calls EXCEPT ![c] = IdleCall]
    /\ UNCHANGED <<opts, verificationKey, now, extCheck, rawID>>

VerifyExternalID(externalID) ==
    /\ extCheck' = [called |-> TRUE, candidate |-> externalID, raw |-> rawID,
                    err |-> VerifyExternalIDErr(opts.externalID, externalID)]
    /\ UNCHANGED <<opts, verificationKey, now, calls, rawID>>

SetExternalID(externalID) ==
    /\ opts' = [opts EXCEPT !.externalID = Sha256Hex(externalID)]
    /\ rawID' = [set |-> TRUE, id |-> externalID]
    /\ UNCHANGED <<verificationKey, now, calls, extCheck>>

\* time passes
Tick ==
    /\ now < Now0 + MaxTicks
    /\ now' = now + 1
    /\ UNCHANGED <<opts, verificationKey, calls, extCheck, rawID>>

\* -------------------------------------------------------------- inputs
\* the signal values the proofs are built from
Null1 == <<1, 3, 6>>
EvA == <<3, 0, 4>>
EvB == <<7>>
UKR == <<85, 75, 82>>
USA == <<85, 83, 65>>
Addr == <<1, 2>>
RootA == <<1, 2, 9>>
TwoPow63 == <<9,2,2,3,3,7,2,0,3,6,8,5,4,7,7,5,8,0,8>>
NotANumber == <<10>>
MinAge == 18
CountLimit == 5
\* the identity-creation-timestamp limit T
TimeLimit == Now0 - 5

\* a proof in the shape of the tests' validProof: fields at their positions, "0" elsewhere
MkProof(f) ==
    [Proof |-> f.proof,
     PubSignals |->
        [i \in 1..f.len |->
            CASE i - 1 = Nullifier -> f.nullifier
              [] i - 1 = Citizenship -> f.citizenship
              [] i - 1 = EventID -> f.eventID
              [] i - 1 = EventData -> f.eventData
              [] i - 1 = IdStateRoot -> RootA
              [] i - 1 = Selector -> f.selector
              [] i - 1 = TimestampUpperBound -> f.timestamp
              [] i - 1 = IdentityCounterUpperBound -> f.counter
              [] i - 1 = BirthdateUpperBound -> f.birthdate
              [] i - 1 = ExpirationDateLowerBound -> f.expiration
              [] OTHER -> <<0>>]]

ValidFields ==
    [proof |-> TRUE, len |-> SignalsLength, nullifier |-> Null1, selector |-> <<3, 9>>,
     expiration |-> Dec(Now0 + 50), eventID |-> EvA, birthdate |-> Dec(Now0 - MinAge),
     citizenship |-> encodeInt(UKR), eventData |-> encodeInt(Addr),
     counter |-> Dec(3), timestamp |-> Dec(TimeLimit - 1)]

\* well-shaped proofs varying the base fields
FieldProofs ==
    {MkProof([ValidFields EXCEPT !.nullifier = n, !.selector = s, !.expiration = e,
                                 !.eventID = ev, !.birthdate = b, !.citizenship = c,
                                 !.eventData = d, !.counter = k]) :
        n \in {Null1, <<>>}, s \in {<<3, 9>>, <<4, 0>>},
        e \in {Dec(Now0 + 1), Dec(Now0 + 50), NotANumber},
        ev \in {EvA, EvB}, b \in {Dec(Now0 - MinAge), Dec(Now0 - MinAge + 1)},
        c \in {encodeInt(UKR), encodeInt(USA)}, d \in {encodeInt(Addr), Dec(259)},
        k \in {Dec(3), TwoPow63}}

\* well-shaped proofs varying the OR pair
PairProofs ==
    {MkProof([ValidFields EXCEPT !.counter = k, !.timestamp = ts]) :
        k \in {Dec(0), Dec(3), Dec(CountLimit), Dec(10), TwoPow63, NotANumber},
        ts \in {Dec(TimeLimit - 1), Dec(TimeLimit), Dec(TimeLimit + 1), NotANumber}}

\* proofs varying the shape
ShapeProofs ==
    {MkProof([ValidFields EXCEPT !.proof = pr, !.len = l, !.selector = s]) :
        pr \in BOOLEAN, l \in {0, SignalsLength - 1, SignalsLength, SignalsLength + 1},
        s \in {<<3, 9>>, <<>>}}

ProofsV == FieldProofs \cup PairProofs \cup ShapeProofs

\* the constructor's option lists and the per-call overrides of the validator runs
CtorOptionsV ==
    {<<>>,
     <<WithAgeAbove(MinAge), WithCitizenships({UKR}), WithEventID(EvA), WithAddress(Addr)>>,
     <<WithIdentitiesCounter(CountLimit)>>,
     <<WithIdentitiesCreationTimestampLimit(TimeLimit)>>,
     <<WithIdentitiesCounter(CountLimit), WithIdentitiesCreationTimestampLimit(TimeLimit)>>}

OverridesV ==
    {<<>>, <<WithAgeAbove(MinAge)>>, <<WithCitizenships({USA})>>, <<WithEventID(EvB)>>,
     <<WithAddress(Addr)>>, <<WithExternalID(Str("alice"))>>,
     <<WithIdentitiesCounter(Unbounded)>>, <<WithIdentitiesCounter(0)>>}

\* the concurrent facade runs: few proofs, two calls in flight
ProofsC ==
    {MkProof(ValidFields), MkProof([ValidFields EXCEPT !.eventID = EvB]),
     MkProof([ValidFields EXCEPT !.len = SignalsLength - 1])}

RawIDsC == {Str("bob")}

CandidatesC == {Str("bob"), Sha256Hex(Str("bob"))}

CtorOptionsC == {<<>>, <<WithExternalID(Str("alice")), WithEventID(EvA)>>}

OverridesC == {<<>>, <<WithEventID(EvB)>>}

RawIDs == {Str("alice"), Str("bob"), EmptyStr}

Candidates == RawIDs \cup {Sha256Hex(x) : x \in RawIDs} \cup {EmptyStr}

RootOutcomes == {Nil, "root is invalid", ErrContractCall}

\* the raw identifier the last WithExternalID of an option list configures
RECURSIVE LastRawID(_)
LastRawID(options) ==
    IF options = <<>> THEN [set |-> FALSE, id |-> EmptyStr]
    ELSE IF options[Len(options)].kind = "WithExternalID"
    THEN [set |-> TRUE, id |-> options[Len(options)].arg]
    ELSE LastRawID(SubSeq(options, 1, Len(options) - 1))

\* NewPassportVerifier(verificationKey, options...)
NewPassportVerifier(options) ==
    /\ opts = mergeOptions(EmptyOptions, options)
    /\ verificationKey = "vk"
    /\ rawID = LastRawID(options)
    /\ now = Now0
    /\ calls = [c \in CallIds |-> IdleCall]
    /\ extCheck = [called |-> FALSE, candidate |-> EmptyStr,
                   raw |-> [set |-> FALSE, id |-> EmptyStr], err |-> ErrNil]

\* ------------------------------------------------------- specifications
Init == \E options \in CtorOptionsC : NewPassportVerifier(options)

\* a new call starts only in a free slot
Idle(c) == calls[c].pc = "idle"

Next ==
    \/ \E c \in CallIds : Idle(c) /\ \E proof \in ProofsC, options \in OverridesC :
          VerifyProofCall(c, proof, options)
    \/ \E c \in CallIds, outcome \in RootOutcomes : VerifyRootReturn(c, outcome)
    \/ \E c \in CallIds, ok \in BOOLEAN : VerifyGroth16Return(c, ok)
    \/ \E c \in CallIds : Return(c)
    \/ \E x \in CandidatesC : VerifyExternalID(x)
    \/ \E x \in RawIDsC : SetExternalID(x)
    \/ Tick

Spec == Init /\ [][Next]_vars

\* one call at a time, over the full range of proofs and configurations
InitV == \E options \in CtorOptionsV : NewPassportVerifier(options)

NextV ==
    \/ Idle(1) /\ \E proof \in ProofsV, options \in OverridesV :
          VerifyProofCall(1, proof, options)
    \/ \E outcome \in RootOutcomes : VerifyRootReturn(1, outcome)
    \/ \E ok \in BOOLEAN : VerifyGroth16Return(1, ok)
    \/ Return(1)
    \/ Tick

SpecV == InitV /\ [][NextV]_vars

\* the correlation check alone, over every identifier and candidate
CtorOptionsX ==
    {<<>>, <<WithExternalID(Str("alice"))>>, <<WithEventID(EvA)>>,
     <<WithExternalID(Str("alice")), WithExternalID(Str("bob"))>>}

InitX == \E options \in CtorOptionsX : NewPassportVerifier(options)

NextX ==
    \/ \E x \in Candidates : VerifyExternalID(x)
    \/ \E x \in RawIDs : SetExternalID(x)
    \/ Tick

SpecX == InitX /\ [][NextX]_vars

\* --------------------------------------------------------------- claims
\* calls whose validateBase has got the root verifier's answer
Answered(c) == calls[c].rootCalls = 1

WellShaped(proof) ==
    proof.Proof /\ proof.PubSignals # <<>> /\ Len(proof.PubSignals) = 21

\* a signal that is a date strictly after t / on or before t
DateAfter(s, t) == ParseDate(s).ok /\ ParseDate(s).t > t
DateOnOrBefore(s, t) == ParseDate(s).ok /\ ParseDate(s).t <= t

\* C1: no public operation changes the verifier's stored base configuration or
\* its verification key: every step leaves both as the constructor built them.
C1_BaseNeverChanges == [][opts' = opts /\ verificationKey' = verificationKey]_vars

\* C2: in every call the pairing check runs at most once and only after
\* validateBase returned no failure for the call's proof and merged
\* configuration; a failed validation is what the call returns, with no pairing
\* check; the root verifier is called at most once per call.
C2_PairingOnlyAfterValidation ==
    \A c \in CallIds :
        LET call == calls[c] IN
        /\ call.rootCalls <= 1
        /\ call.grothCalls <= 1
        /\ (call.pc = "groth" \/ call.grothCalls = 1) =>
              /\ call.verr = ErrNil
              /\ call.rootCalls = 1
              /\ validateBase(call.proof, call.opts, call.rootErr, call.at) = ErrNil
        /\ call.verr \notin {Pending, ErrNil} =>
              call.grothCalls = 0 /\ call.pc = "done" /\ call.result = call.verr

C2_Witness ==
    \E c \in CallIds : calls[c].pc = "done" /\ calls[c].grothCalls = 1 /\ calls[c].rootCalls = 1

\* C3: when the root verifier fails with the contract-call (infrastructure)
\* error the call returns that error itself, not a field report, whatever the
\* other signals and the configuration are; when it rejects the root the call
\* returns a field report with an entry under pub_signals/id_state_hash.
C3_RootOutcomes ==
    \A c \in CallIds :
        LET call == calls[c] IN
        Answered(c) =>
            /\ call.rootErr = ErrContractCall =>
                  call.pc = "done" /\ call.result = ErrInfra /\ call.grothCalls = 0
            /\ call.rootErr = "root is invalid" =>
                  /\ call.pc = "done" /\ call.result.kind = "validation"
                  /\ "pub_signals/id_state_hash" \in DOMAIN call.result.report
                  /\ call.result.report["pub_signals/id_state_hash"] = "root is invalid"
            /\ call.rootErr = Nil =>
                  "pub_signals/id_state_hash" \notin DOMAIN call.verr.report

\* the infrastructure failure is returned although every field check would pass
C3_Witness ==
    /\ Answered(1) /\ calls[1].rootErr = ErrContractCall /\ calls[1].result = ErrInfra
    /\ validateBase(calls[1].proof, calls[1].opts, Nil, calls[1].at) = ErrNil
    /\ calls[1].opts.age = MinAge

\* the three checks no option disables, read off the signal vector
AlwaysRequiredFails(call) ==
    \/ Sig(call.proof.PubSignals, 0) = <<>>
    \/ Sig(call.proof.PubSignals, 12) # <<3, 9>>
    \/ ~DateAfter(Sig(call.proof.PubSignals, 19), call.at)

\* C4: for every configuration and overrides, a well-shaped proof whose
\* nullifier is empty, whose selector is not "39" or whose expiration bound is
\* not a date strictly after the time of validation fails validation, and the
\* call does not succeed nor reach the pairing check.
C4_AlwaysRequired ==
    \A c \in CallIds :
        LET call == calls[c] IN
        (Answered(c) /\ AlwaysRequiredFails(call)) =>
            /\ call.pc = "done" /\ call.grothCalls = 0
            /\ call.result.kind \in {"validation", ErrContractCall}
            /\ call.rootErr # ErrContractCall =>
                 /\ call.result.kind = "validation"
                 /\ Sig(call.proof.PubSignals, 0) = <<>> =>
                       "pub_signals/nullifier" \in DOMAIN call.result.report
                 /\ Sig(call.proof.PubSignals, 12) # <<3, 9>> =>
                       "pub_signals/selector" \in DOMAIN call.result.report
                 /\ ~DateAfter(Sig(call.proof.PubSignals, 19), call.at) =>
                       "pub_signals/expiration_date_lower_bound" \in DOMAIN call.result.report

\* only the selector is wrong, under a configuration with every option set
C4_Witness ==
    /\ Answered(1) /\ calls[1].rootErr = Nil
    /\ Sig(calls[1].proof.PubSignals, 12) = <<4, 0>>
    /\ calls[1].opts.age = MinAge /\ calls[1].opts.eventID # <<>>
    /\ DOMAIN calls[1].result.report = {"pub_signals/selector"}

PairPaths == {"pub_signals/identity_counter_upper_bound", "pub_signals/timestamp_upper_bound"}

\* the count leg is satisfied: no limit, or the counter c has 0 <= c <= limit
CountLegSatisfied(call) ==
    \/ call.opts.maxIdentitiesCount = -1
    \/ /\ IsDigits(Sig(call.proof.PubSignals, 16))
       /\ call.opts.maxIdentitiesCount >= 0
       /\ DecLE(StripZeros(Sig(call.proof.PubSignals, 16)),
                StripZeros(Dec(call.opts.maxIdentitiesCount)))

\* the timestamp leg is satisfied: no limit, or the timestamp is on or before it
TimestampLegSatisfied(call) ==
    \/ call.opts.maxIdentityCreationTimestamp = 0
    \/ DateOnOrBefore(Sig(call.proof.PubSignals, 14), call.opts.maxIdentityCreationTimestamp)

\* a report was made (the root verifier did not fail with the contract-call error)
Reported(c) == Answered(c) /\ calls[c].rootErr # ErrContractCall

\* the counter signal is a decimal string that strconv.ParseInt accepts as int64
CounterParses(call) == ParseInt(Sig(call.proof.PubSignals, 16)).err = Nil

\* C5: for a counter signal that parses as a 64-bit integer: if the count leg is
\* satisfied (limit unset, or 0 <= counter <= limit) the pair reports no error
\* whatever the timestamp is, and if the timestamp leg is satisfied (limit
\* unset, or timestamp on or before the limit) the pair reports no error
\* whatever the counter is.
C5_EitherLegSuffices ==
    \A c \in CallIds :
        (/\ Reported(c) /\ CounterParses(calls[c])
         /\ (CountLegSatisfied(calls[c]) \/ TimestampLegSatisfied(calls[c]))) =>
            DOMAIN calls[c].verr.report \cap PairPaths = {}

\* C6: with both limits configured and both legs failed (counter above the
\* count limit, timestamp after the timestamp limit) the report has an entry
\* under identity_counter_upper_bound and one under timestamp_upper_bound.
C6_BothLegsReported ==
    \A c \in CallIds :
        (/\ Reported(c)
         /\ calls[c].opts.maxIdentitiesCount # -1
         /\ calls[c].opts.maxIdentityCreationTimestamp # 0
         /\ IsDigits(Sig(calls[c].proof.PubSignals, 16))
         /\ ParseDate(Sig(calls[c].proof.PubSignals, 14)).ok
         /\ ~CountLegSatisfied(calls[c])
         /\ ~TimestampLegSatisfied(calls[c])) =>
            PairPaths \subseteq DOMAIN calls[c].verr.report

\* C7 as stated: the check hashes the candidate raw identifier and succeeds
\* exactly when that digest equals the configured one; with no digest
\* configured it fails for every candidate.
C7_HashesCandidate ==
    extCheck.called =>
        IF extCheck.raw.set
        THEN extCheck.err = ErrNil <=> Sha256Hex(extCheck.candidate) = Sha256Hex(extCheck.raw.id)
        ELSE extCheck.err # ErrNil

\* C7 (amended): the check compares the candidate as given, without hashing it,
\* with the configured digest: it succeeds exactly when the candidate is the
\* digest of the configured raw identifier (so the raw identifier itself
\* fails), a failure is an external_id field error, and with no digest
\* configured it fails for every candidate.
C7_ComparesDigest ==
    extCheck.called =>
        /\ IF extCheck.raw.set
           THEN extCheck.err = ErrNil <=> extCheck.candidate = Sha256Hex(extCheck.raw.id)
           ELSE extCheck.err # ErrNil
        /\ extCheck.err # ErrNil =>
              extCheck.err.kind = "validation" /\ DOMAIN extCheck.err.report = {"external_id"}

C7_Witness ==
    /\ extCheck.called /\ extCheck.raw.set
    /\ extCheck.raw.id = Str("alice")
    /\ extCheck.candidate = Sha256Hex(Str("alice"))
    /\ extCheck.err = ErrNil

\* the base field checks that fail, read off the signals and the configuration
FailingChecks(call) ==
    LET sig(i) == Sig(call.proof.PubSignals, i)
        o == call.opts
    IN  {p \in BasePaths :
          \/ p = "pub_signals/nullifier" /\ sig(0) = <<>>
          \/ p = "pub_signals/selector" /\ sig(12) # <<3, 9>>
          \/ p = "pub_signals/expiration_date_lower_bound" /\ ~DateAfter(sig(19), call.at)
          \/ p = "pub_signals/id_state_hash" /\ call.rootErr # Nil
          \/ p = "pub_signals/event_id" /\ o.eventID # <<>> /\ sig(9) # o.eventID
          \/ p = "pub_signals/birth_date_upper_bound"
               /\ o.age # 0 /\ ~DateOnOrBefore(sig(18), call.at - o.age)
          \/ p = "pub_signals/citizenship"
               /\ o.citizenships # {} /\ decodeInt(sig(6)) \notin o.citizenships
          \/ p = "pub_signals/event_data"
               /\ o.address # <<>> /\ sig(10) # encodeInt(o.address)}

\* C8: for a well-shaped proof and no infrastructure failure, the reported
\* field paths among nullifier, selector, expiration bound, identity-state
\* root, event id, birthdate bound, citizenship and event data are exactly the
\* checks that fail: every failure is reported, none is dropped after the first.
C8_AllFailuresReported ==
    \A c \in CallIds :
        Reported(c) => DOMAIN calls[c].verr.report \cap BasePaths = FailingChecks(calls[c])

\* age, citizenship and event id fail together and all three are reported
C8_Witness ==
    /\ Reported(1)
    /\ DOMAIN calls[1].result.report =
          {"pub_signals/birth_date_upper_bound", "pub_signals/citizenship", "pub_signals/event_id"}

\* C9: a proof whose proof object is absent, whose signal vector is absent or
\* whose signal vector is not 21 long is rejected with a shape error: the call
\* is over at once, the report names only zk_proof paths, the root verifier and
\* the pairing check are not called.
C9_ShapeFirst ==
    \A c \in CallIds :
        LET call == calls[c] IN
        (call.pc # "idle" /\ ~WellShaped(call.proof)) =>
            /\ call.pc = "done" /\ call.result = call.verr
            /\ call.result.kind = "validation"
            /\ DOMAIN call.result.report # {}
            /\ DOMAIN call.result.report \subseteq ShapePaths
            /\ call.rootCalls = 0 /\ call.grothCalls = 0

\* a vector of 20 signals, every field valid, is rejected for its length
C9_Witness ==
    /\ calls[1].pc = "done" /\ calls[1].proof.Proof
    /\ Len(calls[1].proof.PubSignals) = 20
    /\ Sig(calls[1].proof.PubSignals, 12) = <<3, 9>>
    /\ DOMAIN calls[1].result.report = {"zk_proof/pub_signals"}

\* a well-formed proof: 21 decimal strings, selector "39", expiration after t
WellFormed(proof, t) ==
    /\ WellShaped(proof)
    /\ \A i \in 1..21 : IsDigits(proof.PubSignals[i])
    /\ Sig(proof.PubSignals, 12) = <<3, 9>>
    /\ DateAfter(Sig(proof.PubSignals, 19), t)

\* C10: a well-formed proof (21 decimal strings of any size, selector "39",
\* expiration after now, root accepted) verified with no optional configuration
\* set passes validation and the call proceeds to the pairing check.
C10_WellFormedPasses ==
    \A c \in CallIds :
        (/\ Answered(c) /\ calls[c].rootErr = Nil
         /\ calls[c].opts = EmptyOptions
         /\ WellFormed(calls[c].proof, calls[c].at)) =>
            /\ calls[c].verr = ErrNil
            /\ calls[c].pc = "groth" \/ calls[c].grothCalls = 1

MaxOptions == 2

\* the mutators a list is drawn from: two values for two of the fields
OptionsM ==
    {WithExternalID(Str("alice")), WithAgeAbove(MinAge), WithAgeAbove(MinAge + 3),
     WithCitizenships({UKR}), WithAddress(Addr), WithEventID(EvA), WithEventID(EvB),
     WithIdentitiesCounter(CountLimit), WithIdentitiesCreationTimestampLimit(TimeLimit)}

OverridesM == UNION {[1..k -> OptionsM] : k \in 0..MaxOptions}

CtorOptionsM ==
    {<<>>, <<WithEventID(EvA)>>,
     <<WithAgeAbove(MinAge), WithCitizenships({UKR}), WithEventID(EvA), WithAddress(Addr)>>}

ProofsM == {MkProof(ValidFields), MkProof([ValidFields EXCEPT !.eventID = EvB])}

InitM == \E options \in CtorOptionsM : NewPassportVerifier(options)

NextM ==
    \/ Idle(1) /\ \E proof \in ProofsM, options \in OverridesM :
          VerifyProofCall(1, proof, options)
    \/ \E outcome \in RootOutcomes : VerifyRootReturn(1, outcome)
    \/ \E ok \in BOOLEAN : VerifyGroth16Return(1, ok)
    \/ Return(1)
    \/ Tick

SpecM == InitM /\ [][NextM]_vars

\* the field a mutator writes and the value it writes there
FieldOf(opt) ==
    CASE opt.kind = "WithExternalID" -> "externalID"
      [] opt.kind = "WithAgeAbove" -> "age"
      [] opt.kind = "WithCitizenships" -> "citizenships"
      [] opt.kind = "WithAddress" -> "address"
      [] opt.kind = "WithEventID" -> "eventID"
      [] opt.kind = "WithIdentitiesCounter" -> "maxIdentitiesCount"
      [] opt.kind = "WithIdentitiesCreationTimestampLimit" -> "maxIdentityCreationTimestamp"

ValueOf(opt) == IF opt.kind = "WithExternalID" THEN Sha256Hex(opt.arg) ELSE opt.arg

Writers(options, f) == {i \in 1..Len(options) : FieldOf(options[i]) = f}

LastWriter(options, f) ==
    CHOOSE i \in Writers(options, f) : \A j \in Writers(options, f) : j <= i

====
